---- MODULE Spec2Model ----
(***************************************************************************)
(* A model of aiojolokia's bulk request engine (src/aiojolokia/client.py   *)
(* and the request/response models of src/aiojolokia/models.py).           *)
(*                                                                         *)
(* Python str values that the code splits are sequences of one-character   *)
(* strings; other str values are TLA+ strings.  An Optional value is None  *)
(* (the empty tuple) or Some(v) (the one-element tuple holding v), so a    *)
(* present empty string Some(<<>>) differs from None.                      *)
(*                                                                         *)
(* Four specifications share the variables:                                *)
(*   Spec           one call site of JolokiaClient.request / .version      *)
(*   SpecConcurrent several call sites interleaved on the same client      *)
(*   SpecSynth      JolokiaClient._build_exception on bounded responses    *)
(*   SpecSerial     JolokiaRequest.json(exclude_none=True) on requests     *)
(***************************************************************************)
EXTENDS Integers, Sequences, FiniteSets, TLC

VARIABLES
    raise_exceptions,   \* JolokiaClient._raise
    pc,                 \* per call: where the async generator of request() stands
    caller,             \* per call: "request" (a consumer iterating) or "version"
    operations,         \* per call: the requests handed to request()
    data,               \* per call: the JSON array fetch_json posted
    json_obj,           \* per call: the reply fetch_json returned
    idx,                \* per call: how many entries the for loop has taken
    exceptions,         \* per call: the local list `exceptions`
    delivered,          \* per call: the responses yielded to the consumer so far
    outcome,            \* per call: how the call ended for its caller
    roundTrips,         \* per call: POSTs sent to the agent
    excArg,             \* SpecSynth: the response given to _build_exception
    excRet,             \* SpecSynth: the exception it returned
    jsonArg,            \* SpecSerial: the request to serialize
    jsonRet             \* SpecSerial: the JSON object emitted for it

vars == <<raise_exceptions, pc, caller, operations, data, json_obj, idx, exceptions,
          delivered, outcome, roundTrips, excArg, excRet, jsonArg, jsonRet>>

callVars == <<raise_exceptions, pc, caller, operations, data, json_obj, idx,
              exceptions, delivered, outcome, roundTrips>>

synthVars == <<excArg, excRet>>

serialVars == <<jsonArg, jsonRet>>

----------------------------------------------------------------------------
(* Bounds *)

MaxBatch == 2        \* requests per call under Spec
MaxCalls == 2        \* concurrent call sites under SpecConcurrent
MaxTypeLen == 3      \* characters of error_type under SpecSynth
MaxErrLen == 4       \* characters of error under SpecSynth

----------------------------------------------------------------------------
(* Optional values and Python str helpers *)

None == <<>>

Some(v) == <<v>>

\* Python truthiness of an Optional[str]: neither None nor the empty string.
Truthy(o) == o # None /\ o[1] # <<>>

\* All sequences over S of length at most n.
SeqUpTo(S, n) == UNION {[1..k -> S] : k \in 0..n}

\* s.find(sep, i) as a 1-based index, 0 when sep does not occur from i on.
RECURSIVE Find(_, _, _)
Find(s, sep, i) ==
    IF i + Len(sep) - 1 > Len(s) THEN 0
    ELSE IF SubSeq(s, i, i + Len(sep) - 1) = sep THEN i
    ELSE Find(s, sep, i + 1)

\* s.split(sep) for a non-empty sep: the pieces between the occurrences of sep,
\* found left to right without overlap.
RECURSIVE Split(_, _)
Split(s, sep) ==
    LET j == Find(s, sep, 1)
    IN  IF j = 0 THEN <<s>>
        ELSE <<SubSeq(s, 1, j - 1)>> \o Split(SubSeq(s, j + Len(sep), Len(s)), sep)

\* sep.join(parts)
RECURSIVE Join(_, _)
Join(sep, parts) ==
    IF parts = <<>> THEN <<>>
    ELSE IF Len(parts) = 1 THEN parts[1]
    ELSE parts[1] \o sep \o Join(sep, Tail(parts))

Dot == <<".">>

ColonSpace == <<":", " ">>

Throwable == <<"T", "h", "r", "o", "w", "a", "b", "l", "e">>

----------------------------------------------------------------------------
(* JolokiaClient._build_exception *)

\* A mutation of ExcName: the first dotted segment instead of the last.
ExcNameFirstSegment(response) ==
    IF Truthy(response.error_type)
    THEN Split(response.error_type[1], Dot)[1]
    ELSE Throwable

\* exc_name: the last dotted segment of error_type, "Throwable" without one.
ExcName(response) ==
    IF Truthy(response.error_type)
    THEN LET parts == Split(response.error_type[1], Dot) IN parts[Len(parts)]
    ELSE Throwable

\* exc_msg: None, or what follows the first ": " of error.
ExcMsg(response) ==
    IF Truthy(response.error)
    THEN Some(Join(ColonSpace, Tail(Split(response.error[1], ColonSpace))))
    ELSE None

\* The exception built: an instance of a new class called exc_name, its args
\* (exc_msg when truthy, nothing otherwise) and its notes (the stacktrace).
BuildException(response) ==
    [name  |-> ExcName(response),
     args  |-> IF Truthy(ExcMsg(response)) THEN <<ExcMsg(response)[1]>> ELSE <<>>,
     notes |-> IF Truthy(response.stacktrace) THEN <<response.stacktrace[1]>> ELSE <<>>]

----------------------------------------------------------------------------
(* models.py: Operation, JolokiaRequest, JolokiaResponse, JolokiaVersion *)

\* class Operation(Enum): member name -> wire value.
Operation ==
    [READ |-> "read", WRITE |-> "write", EXEC |-> "exec",
     SEARCH |-> "search", LIST |-> "list", VERSION |-> "version"]

\* The optional fields of JolokiaRequest, in declaration order.
OptionalFields == <<"mbean", "attribute", "path", "value", "operation_name", "arguments">>

OptionalFieldSet == {OptionalFields[i] : i \in 1..Len(OptionalFields)}

\* JolokiaRequest(type=..., **given): every field not given defaults to None.
JolokiaRequest(type, given) ==
    [k \in {"type"} \cup OptionalFieldSet |->
        IF k = "type" THEN type
        ELSE IF k \in DOMAIN given THEN Some(given[k]) ELSE None]

\* A Python value is [py |-> its type, repr |-> its repr]; json.dumps of it is
\* [json |-> the JSON type, text |-> the JSON text].
PyInt(r) == [py |-> "int", repr |-> r]

PyStr(r) == [py |-> "str", repr |-> r]

PyBool(r) == [py |-> "bool", repr |-> r]

PyList(r) == [py |-> "list", repr |-> r]

JsonEncode(v) ==
    CASE v.py = "int"  -> [json |-> "number", text |-> v.repr]
      [] v.py = "str"  -> [json |-> "string", text |-> v.repr]
      [] v.py = "bool" -> [json |-> "boolean",
                           text |-> IF v.repr = "True" THEN "true" ELSE "false"]
      [] v.py = "list" -> [json |-> "array", text |-> v.repr]

\* bool(v) is False
Falsy(v) == v.repr \in {"0", "", "False", "[]"}

\* A mutation of RequestJson: a field is kept when its value is truthy, not
\* when it is not None.
RequestJsonDroppingFalsy(request) ==
    LET kept == {"type"} \cup
                {k \in OptionalFieldSet : request[k] # None /\ ~Falsy(request[k][1])}
    IN  [k \in kept |->
            IF k = "type" THEN JsonEncode(PyStr(Operation[request.type]))
            ELSE JsonEncode(request[k][1])]

\* request.json(exclude_none=True): the fields whose value is not None, under
\* their field names, the Operation member encoded as its value.
RequestJson(request) ==
    LET kept == {"type"} \cup {k \in OptionalFieldSet : request[k] # None}
    IN  [k \in kept |->
            IF k = "type" THEN JsonEncode(PyStr(Operation[request.type]))
            ELSE JsonEncode(request[k][1])]

\* result.get(k) as an Optional: a key the JSON object lacks parses to None.
Field(result, k) == IF k \in DOMAIN result THEN Some(result[k]) ELSE None

\* JolokiaResponse(**result).  history, request and timestamp are left out: the
\* agent modelled here never sends them.
JolokiaResponse(result) ==
    [status     |-> result.status,
     value      |-> Field(result, "value"),
     error_type |-> Field(result, "error_type"),
     error      |-> Field(result, "error"),
     stacktrace |-> Field(result, "stacktrace")]

\* JolokiaVersion(**value): config defaults to the empty mapping.
JolokiaVersion(value) ==
    [protocol |-> value.protocol,
     agent    |-> value.agent,
     config   |-> IF "config" \in DOMAIN value THEN value.config ELSE <<>>,
     info     |-> value.info]

----------------------------------------------------------------------------
(* The agent behind the transport *)

Calls == 1..MaxCalls

\* The one call site of Spec.
Solo == {1}

VersionValue ==
    [protocol |-> "7.2", agent |-> "1.6.0",
     info |-> [product |-> "jolokia", vendor |-> "x", version |-> "1"]]

\* Reply entries as JSON objects: a key the agent does not send is absent.
Ok200 == [status |-> 200, value |-> VersionValue]

NotModified304 == [status |-> 304]

NotFound404 ==
    [status |-> 404,
     error_type |-> <<"j", "a", "v", "a", ".", "l", "a", "n", "g", ".", "I", "l", "l",
                      "e", "g", "a", "l", "A", "r", "g", "u", "m", "e", "n", "t", "E",
                      "x", "c", "e", "p", "t", "i", "o", "n">>,
     error |-> <<"j", "a", "v", "a", ".", "l", "a", "n", "g", ".", "I", "l", "l", "e",
                 "g", "a", "l", "A", "r", "g", "u", "m", "e", "n", "t", "E", "x", "c",
                 "e", "p", "t", "i", "o", "n", ":", " ", "n", "o", " ", "s", "u", "c",
                 "h", " ", "e", "n", "d", "p", "o", "i", "n", "t">>]

Error500 == [status |-> 500, stacktrace |-> <<"a", "t", " ", "x">>]

\* The entries the agent answers with under Spec and under SpecConcurrent.
Entries == {Ok200, NotModified304, NotFound404, Error500}

BadRequest400 ==
    [status |-> 400, error_type |-> <<"x", ".", "E">>, error |-> <<"E", ":", " ", "m">>]

ConcEntries == {Ok200, BadRequest400}

\* A parsed reply is a JSON array (its items) or a JSON object: the agent
\* answers with an array of one entry per posted request, or with one bare
\* object (it failed before dispatching the requests).
JsonArray(items) == [shape |-> "array", items |-> items, object |-> None]

JsonObject(object) == [shape |-> "object", items |-> <<>>, object |-> Some(object)]

Replies(body, entries) ==
    {JsonArray(s) : s \in [1..Len(body) -> entries]}
    \cup {JsonObject(e) : e \in entries}

\* The requests a consumer batches under Spec.
ReadHeap ==
    JolokiaRequest("READ", [mbean |-> PyStr("java.lang:type=Memory"),
                            attribute |-> PyStr("HeapMemoryUsage")])

WriteZero ==
    JolokiaRequest("WRITE", [mbean |-> PyStr("java.lang:type=Memory"),
                             attribute |-> PyStr("Verbose"), value |-> PyInt("0")])

BatchRequests == {ReadHeap, WriteZero}

\* The batches of a call site under SpecConcurrent: none or one request.
ConcBatches == {<<>>, <<ReadHeap>>}

\* version's request: JolokiaRequest(type=Operation.VERSION)
VersionRequest == JolokiaRequest("VERSION", <<>>)

----------------------------------------------------------------------------
(* JolokiaClient.fetch_json, request and version *)

NoReply == [shape |-> "none", items |-> <<>>, object |-> None]

Pending == [kind |-> "pending", excs |-> <<>>, value |-> None]

\* fetch_json's data: the JSON array of the serialized operations, in order.
FetchJsonBody(ops) == [i \in 1..Len(ops) |-> RequestJson(ops[i])]

\* isinstance(json_obj, Sequence)
IsSequence(reply) == reply.shape = "array"

\* A mutation of Normalize: a reply that is no sequence is taken as empty.
NormalizeDroppingObject(reply) == IF IsSequence(reply) THEN reply.items ELSE <<>>

\* if not isinstance(json_obj, Sequence): json_obj = [json_obj]
Normalize(reply) == IF IsSequence(reply) THEN reply.items ELSE <<reply.object[1]>>

\* A mutation of Result: the entries are taken from the end.
ResultFromEnd(seq, i) == seq[Len(seq) + 1 - i]

\* for result in json_obj: the i-th result taken by the loop.
Result(seq, i) == seq[i]

\* A mutation of Collect: a failure is put in front of the list.
CollectInFront(excs, response) ==
    IF response.status >= 400 THEN <<BuildException(response)>> \o excs ELSE excs

\* if response.status >= 400: exceptions.append(self._build_exception(response))
Collect(excs, response) ==
    IF response.status >= 400 THEN Append(excs, BuildException(response)) ELSE excs

\* A mutation of ExceptionsAfter: one list shared by every call of the client.
ExceptionsAfterShared(exs, c, response) ==
    [d \in DOMAIN exs |-> Collect(exs[d], response)]

\* `exceptions` is a local of the call: only call c's list changes.
ExceptionsAfter(exs, c, response) == [exs EXCEPT ![c] = Collect(@, response)]

\* A mutation of ShouldRaise: the client's flag is not consulted.
ShouldRaiseUngated(flag, excs) == excs # <<>>

\* if self._raise and exceptions
ShouldRaise(flag, excs) == flag /\ excs # <<>>

\* A mutation of VersionOutcome: every status below 400 counts as success.
VersionOutcomeBelow400(response) ==
    IF response.status < 400
    THEN [kind |-> "JolokiaVersion", excs |-> <<>>,
          value |-> IF response.value # None
                    THEN Some(JolokiaVersion(response.value[1])) ELSE None]
    ELSE [kind |-> "JavaException", excs |-> <<BuildException(response)>>,
          value |-> None]

\* version, after the first response: the JolokiaVersion of a status 200, the
\* exception built from the response raised otherwise.
VersionOutcome(response) ==
    IF response.status = 200
    THEN [kind |-> "JolokiaVersion", excs |-> <<>>,
          value |-> Some(JolokiaVersion(response.value[1]))]
    ELSE [kind |-> "JavaException", excs |-> <<BuildException(response)>>,
          value |-> None]

\* The generator of call c runs from where it stands to its next yield or to
\* its end, over the reply `reply`: the next loop iteration parses the entry,
\* collects its failure and yields the response (version, which awaits only
\* this first response, then returns or raises at once); past the last entry
\* the ExceptionGroup is raised or the iteration stops.
Resume(c, reply) ==
    LET seq == Normalize(reply)
    IN  IF idx[c] < Len(seq)
        THEN LET response == JolokiaResponse(Result(seq, idx[c] + 1))
             IN  /\ idx' = [idx EXCEPT ![c] = @ + 1]
                 /\ exceptions' = ExceptionsAfter(exceptions, c, response)
                 /\ delivered' = [delivered EXCEPT ![c] = Append(@, response)]
                 /\ pc' = [pc EXCEPT ![c] = "yielded"]
                 /\ outcome' = IF caller[c] = "version"
                               THEN [outcome EXCEPT ![c] = VersionOutcome(response)]
                               ELSE outcome
        ELSE /\ UNCHANGED <<idx, exceptions, delivered>>
             /\ IF ShouldRaise(raise_exceptions, exceptions[c])
                THEN /\ pc' = [pc EXCEPT ![c] = "raised"]
                     /\ outcome' = [outcome EXCEPT ![c] =
                            [kind |-> "ExceptionGroup", excs |-> exceptions[c],
                             value |-> None]]
                ELSE /\ pc' = [pc EXCEPT ![c] = "exhausted"]
                     /\ outcome' = [outcome EXCEPT ![c] =
                            [kind |-> "StopAsyncIteration", excs |-> <<>>,
                             value |-> None]]

\* request(ops) is iterated for the first time, by a consumer or by version
\* (who): the call runs to the await of the POST in fetch_json.
Start(c, who, ops) ==
    /\ pc' = [pc EXCEPT ![c] = "awaiting"]
    /\ caller' = [caller EXCEPT ![c] = who]
    /\ operations' = [operations EXCEPT ![c] = ops]
    /\ exceptions' = [exceptions EXCEPT ![c] = <<>>]
    /\ data' = [data EXCEPT ![c] = FetchJsonBody(ops)]
    /\ roundTrips' = [roundTrips EXCEPT ![c] = @ + 1]
    /\ UNCHANGED <<raise_exceptions, json_obj, idx, delivered, outcome>>
    /\ UNCHANGED <<synthVars, serialVars>>

\* A consumer starts iterating client.request(ops).
Request(c, batches) ==
    /\ pc[c] = "idle"
    /\ \E ops \in batches : Start(c, "request", ops)

\* client.version is awaited.
Version(c) ==
    /\ pc[c] = "idle"
    /\ Start(c, "version", <<VersionRequest>>)

\* The POST returns: fetch_json hands the parsed reply to request, which
\* normalizes it and runs to its first yield or to its end.
FetchReturns(c, entries) ==
    /\ pc[c] = "awaiting"
    /\ \E reply \in Replies(data[c], entries) :
          /\ json_obj' = [json_obj EXCEPT ![c] = reply]
          /\ Resume(c, reply)
    /\ UNCHANGED <<raise_exceptions, caller, operations, data, roundTrips>>
    /\ UNCHANGED <<synthVars, serialVars>>

\* The consumer asks for the next response (__anext__).
Anext(c) ==
    /\ pc[c] = "yielded"
    /\ caller[c] = "request"
    /\ Resume(c, json_obj[c])
    /\ UNCHANGED <<raise_exceptions, caller, operations, data, json_obj, roundTrips>>
    /\ UNCHANGED <<synthVars, serialVars>>

\* The consumer stops iterating and the suspended generator is closed (aclose,
\* or finalization of the generator version abandons): GeneratorExit is thrown
\* in at the yield, so the code after the loop never runs.
Aclose(c) ==
    /\ pc[c] = "yielded"
    /\ pc' = [pc EXCEPT ![c] = "closed"]
    /\ UNCHANGED <<raise_exceptions, caller, operations, data, json_obj, idx,
                   exceptions, delivered, outcome, roundTrips>>
    /\ UNCHANGED <<synthVars, serialVars>>

----------------------------------------------------------------------------
(* Specifications of the engine *)

InitCalls ==
    /\ raise_exceptions \in BOOLEAN
    /\ pc = [c \in Calls |-> "idle"]
    /\ caller = [c \in Calls |-> "none"]
    /\ operations = [c \in Calls |-> <<>>]
    /\ data = [c \in Calls |-> <<>>]
    /\ json_obj = [c \in Calls |-> NoReply]
    /\ idx = [c \in Calls |-> 0]
    /\ exceptions = [c \in Calls |-> <<>>]
    /\ delivered = [c \in Calls |-> <<>>]
    /\ outcome = [c \in Calls |-> Pending]
    /\ roundTrips = [c \in Calls |-> 0]

InitSynth == excArg = None /\ excRet = None

InitSerial == jsonArg = None /\ jsonRet = None

Init == InitCalls /\ InitSynth /\ InitSerial

Next ==
    \E c \in Solo :
        \/ Request(c, SeqUpTo(BatchRequests, MaxBatch))
        \/ Version(c)
        \/ FetchReturns(c, Entries)
        \/ Anext(c)
        \/ Aclose(c)

Spec == Init /\ [][Next]_vars

NextConcurrent ==
    \E c \in Calls :
        \/ Request(c, ConcBatches)
        \/ Version(c)
        \/ FetchReturns(c, ConcEntries)
        \/ Anext(c)
        \/ Aclose(c)

SpecConcurrent == Init /\ [][NextConcurrent]_vars

----------------------------------------------------------------------------
(* _build_exception on its own: SpecSynth *)

TypeChars == {"a", "."}

ErrorChars == {"a", ":", " "}

Optional(S) == {None} \cup {Some(v) : v \in S}

\* Failed responses: every presence and absence of the three error fields.
SynthResponses ==
    {[status |-> st, value |-> None, error_type |-> t, error |-> e, stacktrace |-> k] :
        st \in {400, 500},
        t \in Optional(SeqUpTo(TypeChars, MaxTypeLen)),
        e \in Optional(SeqUpTo(ErrorChars, MaxErrLen)),
        k \in Optional({<<>>, <<"a", "t">>})}

InitSynthSpec ==
    /\ InitCalls /\ raise_exceptions = FALSE
    /\ InitSerial
    /\ excArg \in Optional(SynthResponses) \ {None}
    /\ excRet = None

\* exc = self._build_exception(response)
BuildExceptionCall ==
    /\ excArg # None
    /\ excRet = None
    /\ excRet' = Some(BuildException(excArg[1]))
    /\ UNCHANGED <<excArg, callVars, serialVars>>

NextSynth == BuildExceptionCall

SpecSynth == InitSynthSpec /\ [][NextSynth]_vars

----------------------------------------------------------------------------
(* request.json(exclude_none=True) on its own: SpecSerial *)

\* Requests with every presence and absence of the optional fields, the
\* present values falsy (0, "", False, []) as well as truthy.
SerialRequests ==
    {[type |-> t, mbean |-> m, attribute |-> a, path |-> p, value |-> v,
      operation_name |-> o, arguments |-> g] :
        t \in DOMAIN Operation,
        m \in Optional({PyStr("java.lang:type=Memory")}),
        a \in Optional({PyStr("Verbose")}),
        p \in Optional({PyStr("used")}),
        v \in Optional({PyInt("0"), PyInt("1"), PyStr(""), PyBool("False")}),
        o \in Optional({PyStr("gc")}),
        g \in Optional({PyList("[]"), PyList("[1]")})}

InitSerialSpec ==
    /\ InitCalls /\ raise_exceptions = FALSE
    /\ InitSynth
    /\ jsonArg \in Optional(SerialRequests) \ {None}
    /\ jsonRet = None

\* request.json(exclude_none=True) for one request of the batch
JsonCall ==
    /\ jsonArg # None
    /\ jsonRet = None
    /\ jsonRet' = Some(RequestJson(jsonArg[1]))
    /\ UNCHANGED <<jsonArg, callVars, synthVars>>

NextSerial == JsonCall

SpecSerial == InitSerialSpec /\ [][NextSerial]_vars

----------------------------------------------------------------------------
(* Vocabulary of the properties *)

\* The entries of a reply as the agent sent them: the items of an array, or
\* the bare object alone.
ReplyEntries(reply) ==
    IF reply.shape = "array" THEN reply.items
    ELSE IF reply.shape = "object" THEN <<reply.object[1]>>
    ELSE <<>>

IsFailed(entry) == entry.status >= 400

FailedEntries(reply) == SelectSeq(ReplyEntries(reply), IsFailed)

\* The call has its reply: the generator is past the await of the POST.
Replied(c) == pc[c] \notin {"idle", "awaiting"}

\* The generator ran to its end: iteration stopped or the group was raised.
Finished(c) == pc[c] \in {"exhausted", "raised"}

IllegalArgumentException ==
    <<"I", "l", "l", "e", "g", "a", "l", "A", "r", "g", "u", "m", "e", "n", "t", "E",
      "x", "c", "e", "p", "t", "i", "o", "n">>

NoSuchEndpoint ==
    <<"n", "o", " ", "s", "u", "c", "h", " ", "e", "n", "d", "p", "o", "i", "n", "t">>

----------------------------------------------------------------------------
(* C1 *)

\* C1, as claimed: once request() over a non-empty batch of n requests has run
\* to its end, exactly n responses were delivered, the i-th being the parse of
\* the i-th reply entry.
C1_OnePerRequest ==
    \A c \in Calls :
        (caller[c] = "request" /\ Len(operations[c]) > 0 /\ Finished(c)) =>
            /\ Len(delivered[c]) = Len(operations[c])
            /\ \A i \in 1..Len(operations[c]) :
                  delivered[c][i] = JolokiaResponse(ReplyEntries(json_obj[c])[i])

\* C1, amended: over a non-empty batch of n requests the responses delivered
\* so far are the parses of the first reply entries, in the reply's order, and
\* once request() has run to its end there is one response per reply entry:
\* n of them when the agent answered with an array, one when it answered with
\* a bare object.
C1_OnePerReplyEntryInOrder ==
    \A c \in Calls :
        (caller[c] = "request" /\ Len(operations[c]) > 0 /\ Replied(c)) =>
            LET es == ReplyEntries(json_obj[c])
            IN  /\ Len(delivered[c]) <= Len(es)
                /\ \A i \in 1..Len(delivered[c]) :
                      delivered[c][i] = JolokiaResponse(es[i])
                /\ Finished(c) => Len(delivered[c]) = Len(es)
                /\ Len(es) = IF json_obj[c].shape = "array"
                             THEN Len(operations[c]) ELSE 1

\* C1's case: a batch of two answered with an array of a failed and a
\* successful entry, both delivered in that order.
C1_Witness ==
    \E c \in Calls :
        /\ caller[c] = "request" /\ Finished(c)
        /\ Len(operations[c]) = 2
        /\ json_obj[c].shape = "array"
        /\ Len(delivered[c]) = 2
        /\ delivered[c][1].status = 404
        /\ delivered[c][2].status = 200

----------------------------------------------------------------------------
(* C2 *)

\* C2: with raise_exceptions set, the ExceptionGroup is raised exactly when
\* request() has run to its end over a reply with k > 0 failed entries; it
\* carries the k exceptions built from the failed entries, in their order, and
\* while a reply entry is still undelivered nothing has been raised.
C2_GroupAfterAllDelivered ==
    \A c \in Calls :
        (raise_exceptions /\ caller[c] = "request" /\ Replied(c)) =>
            LET es == ReplyEntries(json_obj[c])
                failed == FailedEntries(json_obj[c])
            IN  /\ outcome[c].kind = "ExceptionGroup" =>
                      /\ Len(delivered[c]) = Len(es)
                      /\ Len(failed) > 0
                      /\ Len(outcome[c].excs) = Len(failed)
                      /\ \A i \in 1..Len(failed) :
                            outcome[c].excs[i] =
                                BuildException(JolokiaResponse(failed[i]))
                /\ (Finished(c) /\ Len(failed) > 0) =>
                      outcome[c].kind = "ExceptionGroup"
                /\ Len(delivered[c]) < Len(es) => outcome[c].kind = "pending"

\* C2's case: two failed entries of different kinds, both delivered, then the
\* group of two raised.
C2_Witness ==
    \E c \in Calls :
        /\ raise_exceptions /\ caller[c] = "request"
        /\ pc[c] = "raised"
        /\ Len(delivered[c]) = 2
        /\ Len(outcome[c].excs) = 2
        /\ outcome[c].excs[1].name = IllegalArgumentException
        /\ outcome[c].excs[2].name = Throwable

----------------------------------------------------------------------------
(* C3 *)

\* C3: when request() has run to its end every reply entry was delivered,
\* failed ones included; without raise_exceptions the iteration then stops
\* normally, and with it the iteration stops normally when no entry failed.
C3_OnlyRaisingIsGated ==
    \A c \in Calls :
        (caller[c] = "request" /\ Finished(c)) =>
            LET es == ReplyEntries(json_obj[c])
            IN  /\ Len(delivered[c]) = Len(es)
                /\ \A i \in 1..Len(es) : delivered[c][i].status = es[i].status
                /\ ~raise_exceptions => outcome[c].kind = "StopAsyncIteration"
                /\ FailedEntries(json_obj[c]) = <<>> =>
                      outcome[c].kind = "StopAsyncIteration"

\* C3's case: without raise_exceptions, a failed and a successful entry were
\* both delivered and the iteration stopped normally.
C3_Witness ==
    \E c \in Calls :
        /\ ~raise_exceptions /\ caller[c] = "request"
        /\ pc[c] = "exhausted"
        /\ Len(delivered[c]) = 2
        /\ delivered[c][1].status = 500
        /\ delivered[c][2].status = 200
        /\ outcome[c].kind = "StopAsyncIteration"

----------------------------------------------------------------------------
(* C4 *)

----------------------------------------------------------------------------
(* C5 *)

Least(P) == CHOOSE i \in P : \A j \in P : i <= j

Greatest(P) == CHOOSE i \in P : \A j \in P : i >= j

\* What follows the last "." of s; all of s when it holds none.
AfterLastDot(s) ==
    LET dots == {i \in 1..Len(s) : s[i] = "."}
    IN  IF dots = {} THEN s ELSE SubSeq(s, Greatest(dots) + 1, Len(s))

\* C5: _build_exception returns an exception for every failed response,
\* whichever of error_type, error and stacktrace are present; its name is what
\* follows the last "." of error_type when error_type is present and not
\* empty, and "Throwable" otherwise.
C5_NameIsLastSegmentOrThrowable ==
    /\ (excArg # None /\ excRet = None) => ENABLED BuildExceptionCall
    /\ excRet # None =>
          LET r == excArg[1]
              e == excRet[1]
          IN  /\ e.name = IF r.error_type # None /\ r.error_type[1] # <<>>
                          THEN AfterLastDot(r.error_type[1])
                          ELSE Throwable
              /\ Len(e.args) <= 1
              /\ Len(e.notes) <= 1

\* C5's case: a dotted error_type, with error and stacktrace absent.
C5_Witness ==
    /\ excRet # None
    /\ excArg[1].error_type = Some(<<"a", ".", "a">>)
    /\ excArg[1].error = None
    /\ excArg[1].stacktrace = None
    /\ excRet[1].name = <<"a">>

----------------------------------------------------------------------------
(* C6 *)

\* The message the claim derives from a present error: what follows its first
\* ": ", or all of it when it holds none.
ClaimedMessage(s) ==
    LET seps == {i \in 1..(Len(s) - 1) : s[i] = ":" /\ s[i + 1] = " "}
    IN  IF seps = {} THEN s ELSE SubSeq(s, Least(seps) + 2, Len(s))

\* The text of an exception's message, empty when it carries none.
MessageOf(e) == IF e.args = <<>> THEN <<>> ELSE e.args[1]

\* C6, as claimed: the built exception carries no message when error is
\* absent; when error is present its message is what follows the first ": "
\* of error, or the whole of error when it holds no ": ".
C6_MessageFromError ==
    excRet # None =>
        LET r == excArg[1]
            e == excRet[1]
        IN  IF r.error = None THEN e.args = <<>>
            ELSE MessageOf(e) = ClaimedMessage(r.error[1])

----------------------------------------------------------------------------
(* C7 *)

\* The wire key the claim gives each field of a request.
ClaimedKey(k) == IF k = "operation_name" THEN "operationName" ELSE k

LowercaseName ==
    [READ |-> "read", WRITE |-> "write", EXEC |-> "exec",
     SEARCH |-> "search", LIST |-> "list", VERSION |-> "version"]

PresentFields(request) == {k \in OptionalFieldSet : request[k] # None}

----------------------------------------------------------------------------
(* C8 *)

\* C8: a call answered with the bare object R and a call answered with the
\* array [R] fare alike: whenever both stand at the same point they have
\* delivered the same responses, collected the same exceptions and ended the
\* same way, and once run to their end each has delivered exactly one response.
C8_BareObjectAsOneElementArray ==
    \A c, d \in Calls :
        (/\ caller[c] = "request" /\ caller[d] = "request"
         /\ json_obj[c].shape = "object"
         /\ json_obj[d].shape = "array"
         /\ json_obj[d].items = <<json_obj[c].object[1]>>) =>
            /\ pc[c] = pc[d] =>
                  /\ delivered[c] = delivered[d]
                  /\ exceptions[c] = exceptions[d]
                  /\ outcome[c] = outcome[d]
            /\ Finished(c) => Len(delivered[c]) = 1
            /\ Finished(d) => Len(delivered[d]) = 1
            /\ (Finished(c) /\ Finished(d)) => pc[c] = pc[d]

\* C8's case: the failed object R bare for one call and as [R] for another,
\* both run to their end on a client with raise_exceptions set.
C8_Witness ==
    \E c, d \in Calls :
        /\ raise_exceptions
        /\ caller[c] = "request" /\ caller[d] = "request"
        /\ json_obj[c] = JsonObject(BadRequest400)
        /\ json_obj[d] = JsonArray(<<BadRequest400>>)
        /\ pc[c] = "raised" /\ pc[d] = "raised"

----------------------------------------------------------------------------
(* C9 *)

\* C9: however the calls on one client interleave, each call has posted once,
\* the serialization of its own operations; it has delivered the parses of the
\* first entries of its own reply, in order; and the exceptions it has
\* collected, and raises as a group, are those of its own failed entries
\* delivered so far.
C9_CallsShareNothing ==
    \A c \in Calls :
        /\ pc[c] = "idle" => roundTrips[c] = 0
        /\ pc[c] # "idle" =>
              /\ roundTrips[c] = 1
              /\ Len(data[c]) = Len(operations[c])
        /\ Replied(c) =>
              LET es == ReplyEntries(json_obj[c])
                  seen == SubSeq(es, 1, Len(delivered[c]))
                  own == SelectSeq(seen, IsFailed)
              IN  /\ Len(delivered[c]) <= Len(es)
                  /\ \A i \in 1..Len(delivered[c]) :
                        delivered[c][i] = JolokiaResponse(es[i])
                  /\ Len(exceptions[c]) = Len(own)
                  /\ \A i \in 1..Len(own) :
                        exceptions[c][i] = BuildException(JolokiaResponse(own[i]))
                  /\ outcome[c].kind = "ExceptionGroup" =>
                        outcome[c].excs = exceptions[c]
                  /\ (Finished(c) /\ own = <<>>) =>
                        outcome[c].kind = "StopAsyncIteration"

\* C9's case: two calls suspended at a yield at the same time on a client with
\* raise_exceptions set, one having collected the failure of its failed entry,
\* the other, answered with a successful entry, having collected none.
C9_Witness ==
    \E c, d \in Calls :
        /\ c # d /\ raise_exceptions
        /\ caller[c] = "request" /\ caller[d] = "request"
        /\ pc[c] = "yielded" /\ Len(exceptions[c]) = 1
        /\ pc[d] = "yielded" /\ Len(delivered[d]) = 1 /\ exceptions[d] = <<>>

----------------------------------------------------------------------------
(* C10 *)

\* C10, as claimed: with raise_exceptions set, when the consumer has closed
\* the generator while reply entries were still undelivered and a failed entry
\* had been delivered, the collected failures have been raised to the caller.
C10_FailuresReportedWhenCutShort ==
    \A c \in Calls :
        (/\ raise_exceptions
         /\ pc[c] = "closed"
         /\ Len(delivered[c]) < Len(ReplyEntries(json_obj[c]))
         /\ \E i \in 1..Len(delivered[c]) : delivered[c][i].status >= 400) =>
            /\ outcome[c].kind \in {"ExceptionGroup", "JavaException"}
            /\ outcome[c].excs = exceptions[c]

----------------------------------------------------------------------------
(* C11 *)

\* C11, as claimed: a call of request() (and so of fetch_json) over an empty
\* sequence of operations is refused with a ValidationError: nothing is posted
\* to the agent and no response is delivered.
C11_EmptyBatchRejected ==
    \A c \in Calls :
        (caller[c] = "request" /\ pc[c] # "idle" /\ operations[c] = <<>>) =>
            /\ roundTrips[c] = 0
            /\ delivered[c] = <<>>
            /\ outcome[c].kind = "ValidationError"

====
